---------------------------- MODULE Spec2Model ----------------------------
(***************************************************************************)
(* yggdrasilctl: the command-line client of the admin socket.              *)
(* One run of main(): parse the command line, build one JSON request,      *)
(* connect, write the request and a newline, flush, read one line, then    *)
(* interpret and render the response.  The resolver of the host, the       *)
(* network and the daemon are the environment.                             *)
(*                                                                         *)
(* Text the code looks into (command-line tokens, the endpoint, JSON       *)
(* strings and keys) is a sequence of one-character strings over the       *)
(* characters of Ascii; text it only prints is a string.  stdout and       *)
(* stderr are the texts of the println! / eprintln! calls, in order.       *)
(* Bytes on the socket are sequences of lexical tokens <<kind, text>>.     *)
(***************************************************************************)
EXTENDS Integers, Sequences, FiniteSets, TLC

VARIABLES
    argv,         \* std::env::args() without the program name: tokens
    script,       \* the line(s) the daemon answers a request with
    lookup,       \* what getaddrinfo answers for the host of the address:
                  \*   "address", or the text of its error
    remote,       \* what a connect(2) to the socket address meets: "listening",
                  \*   or the text of the error of the operating system
    pc,           \* position of main(): start, built, connected, wrote_req,
                  \*   wrote_nl, flushed, done
    endpoint,     \* local `endpoint` (characters)
    json_output,  \* local `json_output`
    free,         \* local `free`: the free (non-option) tokens
    request,      \* local `request`
    conn_addr,    \* local `addr` once TcpStream::connect was called with it, as
                  \*   <<addr>>, else <<>>
    conn_err,     \* the io::Error `e` TcpStream::connect returned, as
                  \*   <<text of its Display>>, else <<>>
    peer,         \* the daemon's side as the socket has seen it: none, open,
                  \*   closed (FIN), reset (RST), closed_reset (FIN, then RST)
    wire_out,     \* tokens written to the socket so far
    pending,      \* tokens of the reply the daemon has not sent yet
    inbuf,        \* tokens the daemon has sent
    line,         \* the String filled by read_line
    stdout,       \* lines printed to standard output
    stderr,       \* lines printed to standard error
    exit_code,    \* process exit status, -1 while running
    exit_at,      \* the place main() ended at
    log           \* steps executed so far, in order: [op, ok]

vars == <<argv, script, lookup, remote, pc, endpoint, json_output, free, request,
          conn_addr, conn_err, peer, wire_out, pending, inbuf, line, stdout, stderr,
          exit_code, exit_at, log>>

(***************************************************************************)
(* Bounds of the model.                                                    *)
(***************************************************************************)
MaxOpts == 2      \* option arguments on the command line
MaxKV == 2        \* tokens after the command
MaxEntries == 2   \* entries of a peers / tree array in a reply

(***************************************************************************)
(* Text helpers.                                                           *)
(***************************************************************************)
\* `let x = e; body`: F applied to the value of e, which is computed once.
With(e, F(_)) == CHOOSE y \in { F(v) : v \in {e} } : TRUE

RECURSIVE Str(_)
\* String::from of a character sequence.
Str(cs) == IF cs = <<>> THEN "" ELSE Head(cs) \o Str(Tail(cs))

RECURSIVE Spaces(_)
Spaces(n) == IF n <= 0 THEN "" ELSE " " \o Spaces(n - 1)

\* format!("{:width$}", s): left-aligned, padded with spaces, never cut.
PadRight(s, width) == s \o Spaces(width - Len(s))

RECURSIVE SeqsUpTo(_, _)
\* All sequences over S of length at most n.
SeqsUpTo(S, n) ==
    IF n = 0 THEN {<<>>}
    ELSE LET shorter == SeqsUpTo(S, n - 1)
         IN  shorter \cup {Append(q, x) : q \in shorter, x \in S}

RECURSIVE Flatten(_)
Flatten(ss) == IF ss = <<>> THEN <<>> ELSE Head(ss) \o Flatten(Tail(ss))

RECURSIVE FindChar(_, _, _)
\* Index of the first c in cs at or after i, 0 when there is none.
FindChar(cs, c, i) ==
    IF i > Len(cs) THEN 0
    ELSE IF cs[i] = c THEN i
    ELSE FindChar(cs, c, i + 1)

\* The characters of the model in the order of their code points: tab, line
\* feed, form feed, carriage return, then U+0020 to U+007E (U+0060 left out).
Ascii ==
    << "\t", "\n", "\f", "\r",
       " ", "!", "\"", "#", "$", "%", "&", "'", "(", ")", "*", "+", ",", "-", ".", "/",
       "0", "1", "2", "3", "4", "5", "6", "7", "8", "9", ":", ";", "<", "=", ">", "?",
       "@", "A", "B", "C", "D", "E", "F", "G", "H", "I", "J", "K", "L", "M", "N", "O",
       "P", "Q", "R", "S", "T", "U", "V", "W", "X", "Y", "Z", "[", "\\", "]", "^", "_",
       "a", "b", "c", "d", "e", "f", "g", "h", "i", "j", "k", "l", "m", "n", "o",
       "p", "q", "r", "s", "t", "u", "v", "w", "x", "y", "z", "{", "|", "}", "~" >>

RECURSIVE StrLess(_, _)
\* str's Ord: a < b, byte by byte, a proper prefix first.
StrLess(a, b) ==
    IF b = <<>> THEN FALSE
    ELSE IF a = <<>> THEN TRUE
    ELSE IF Head(a) = Head(b) THEN StrLess(Tail(a), Tail(b))
    ELSE LET rank(c) == CHOOSE i \in 1..Len(Ascii) : Ascii[i] = c
         IN  rank(Head(a)) < rank(Head(b))

Digits == <<"0", "1", "2", "3", "4", "5", "6", "7", "8", "9">>
IsDigit(c) == \E i \in 1..Len(Digits) : Digits[i] = c
DigitValue(c) == (CHOOSE i \in 1..Len(Digits) : Digits[i] = c) - 1

RECURSIVE Decimal(_)
\* An integer as itoa writes it: the characters of its decimal form.
Decimal(n) ==
    IF n < 0 THEN <<"-">> \o Decimal(0 - n)
    ELSE IF n < 10 THEN << Digits[n + 1] >>
    ELSE Decimal(n \div 10) \o << Digits[(n % 10) + 1] >>

\* char::to_lowercase on the ASCII letters.
LowerChar(c) ==
    LET upper == <<"A","B","C","D","E","F","G","H","I","J","K","L","M",
                   "N","O","P","Q","R","S","T","U","V","W","X","Y","Z">>
        lower == <<"a","b","c","d","e","f","g","h","i","j","k","l","m",
                   "n","o","p","q","r","s","t","u","v","w","x","y","z">>
    IN  IF \E i \in 1..Len(upper) : upper[i] = c
        THEN lower[CHOOSE i \in 1..Len(upper) : upper[i] = c]
        ELSE c

\* str::to_lowercase
ToLowercase(cs) == [i \in 1..Len(cs) |-> LowerChar(cs[i])]

(***************************************************************************)
(* Command-line tokens the runs of the model are started with.             *)
(***************************************************************************)
DefaultEndpoint ==
    <<"t","c","p",":","/","/","l","o","c","a","l","h","o","s","t",":","9","0","0","1">>
TcpPrefix == <<"t","c","p",":","/","/">>

EpBare == <<"h",":","1">>
EpNumeric == <<"1","2","7",".","0",".","0",".","1",":","9","0","0","1">>
EpTwice == <<"t","c","p",":","/","/","t","c","p",":","/","/","h">>
EpQuote == <<"a","\"","b">>

\* Endpoints for the ways an address is turned into a socket address: names,
\* socket addresses of IPv4 and IPv6 ([::1]:9001), a form only the resolver
\* reads (127.1:9001), a name in capitals with a signed port
\* (tcp://LOCALHOST:+9001), no port, no host (tcp://:1).
Endpoints ==
    { DefaultEndpoint, EpBare, EpNumeric, EpTwice, EpQuote,
      <<"[",":",":","1","]",":","9","0","0","1">>,
      <<"1","2","7",".","1",":","9","0","0","1">>,
      <<"t","c","p",":","/","/","L","O","C","A","L","H","O","S","T",":","+","9","0","0","1">>,
      <<"t","c","p",":","/","/",":","1">> }

\* One option argument: a flag in its short or long form, a cluster of flags,
\* -e with or without its value, the value inline (--endpoint=127.0.0.1:9001,
\* -ea"b), or the end of the options.
OptArgs ==
    { << <<"-","j">> >>, << <<"-","h">> >>, << <<"-","v">> >>, << <<"-","x">> >>,
      << <<"-","e">> >>, << <<"-","e">>, EpBare >>, << <<"-","e">>, EpTwice >>,
      << <<"-","-","j","s","o","n">> >>, << <<"-","j","v">> >>,
      << <<"-","-","e","n","d","p","o","i","n","t","=">> \o EpNumeric >>,
      << <<"-","e">> \o EpQuote >>, << <<"-","-">> >> }

Commands ==
    { <<"l","i","s","t">>, <<"g","e","t","s","e","l","f">>,
      <<"g","e","t","P","e","e","r","s">>, <<"G","E","T","T","R","E","E">>,
      <<"a","d","d","p","e","e","r">> }

KVTokens ==
    { <<"a","=","b">>, <<"a","=","c","=","d">>, <<"b">>, <<"=","a">>, <<"q","=","\"","\\">> }

\* Command lines that vary the options: [options] [command]
OptionRuns ==
    { Flatten(o) \o f : o \in SeqsUpTo(OptArgs, MaxOpts),
                        f \in {<<>>, << <<"g","e","t","P","e","e","r","s">> >>} }

\* Command lines that vary the command and what follows it:
\* [-j] <command> [key=value ...]
CommandRuns ==
    { o \o <<c>> \o kv : o \in {<<>>, << <<"-","j">> >>}, c \in Commands,
                          kv \in SeqsUpTo(KVTokens, MaxKV) }

\* Those of them with nothing after the command.
PlainRuns == { o \o <<c>> : o \in {<<>>, << <<"-","j">> >>}, c \in Commands }

\* Command lines that vary the endpoint: -e <endpoint> list
ConnectRuns == { << <<"-","e">>, ep, <<"l","i","s","t">> >> : ep \in Endpoints }

ArgvSet == OptionRuns \cup CommandRuns

(***************************************************************************)
(* getopts: Options::parse with the four options main() declares, free     *)
(* arguments anywhere (FloatingFrees).                                     *)
(***************************************************************************)
\* opts.optopt("e", "endpoint", ..) and the three optflag calls, in order.
Opts ==
    << [short |-> "e", long |-> <<"e","n","d","p","o","i","n","t">>, hasarg |-> TRUE],
       [short |-> "j", long |-> <<"j","s","o","n">>, hasarg |-> FALSE],
       [short |-> "h", long |-> <<"h","e","l","p">>, hasarg |-> FALSE],
       [short |-> "v", long |-> <<"v","e","r","s","i","o","n">>, hasarg |-> FALSE] >>

\* is_arg: an argument that is an option (or "--"), not a free argument.
IsArg(tok) == Len(tok) > 1 /\ tok[1] = "-"

\* find_opt(Name::from_str(nm)): a name of one character is a short name, any
\* other a long name; the index of the option in Opts, 0 when there is none.
FindOpt(nm) ==
    IF Len(nm) = 1
    THEN IF \E i \in 1..Len(Opts) : Opts[i].short = nm[1]
         THEN CHOOSE i \in 1..Len(Opts) : Opts[i].short = nm[1]
         ELSE 0
    ELSE IF \E i \in 1..Len(Opts) : Opts[i].long = nm
         THEN CHOOSE i \in 1..Len(Opts) : Opts[i].long = nm
         ELSE 0

\* Fail's Display.
UnrecognizedOption(nm) == "Unrecognized option: '" \o Str(nm) \o "'"
ArgumentMissing(nm) == "Argument to option '" \o Str(nm) \o "' missing"
UnexpectedArgument(nm) == "Option '" \o Str(nm) \o "' does not take an argument"
OptionDuplicated(nm) == "Option '" \o Str(nm) \o "' given more than once"

\* The names an option argument gives and its inline value (<<text>> or <<>>).
ArgNames(err, names, i_arg) == [err |-> err, names |-> names, i_arg |-> i_arg]

\* "--name" or "--name=value": tail.splitn(2, '=').
LongNames(cur) ==
    With(SubSeq(cur, 3, Len(cur)), LAMBDA tail :
    With(FindChar(tail, "=", 1), LAMBDA at :
      IF at = 0 THEN ArgNames("", <<tail>>, <<>>)
      ELSE ArgNames("", << SubSeq(tail, 1, at - 1) >>, << SubSeq(tail, at + 1, Len(tail)) >>)))

RECURSIVE ShortNames(_, _, _)
\* "-abc": each character from cur[j] on is an option, until one that takes
\* an argument, whose argument is the rest of the token when there is a rest.
ShortNames(cur, j, names) ==
    IF j > Len(cur) THEN ArgNames("", names, <<>>)
    ELSE With(FindOpt(<< cur[j] >>), LAMBDA id :
      IF id = 0 THEN ArgNames(UnrecognizedOption(<< cur[j] >>), <<>>, <<>>)
      ELSE IF Opts[id].hasarg /\ j < Len(cur)
      THEN ArgNames("", Append(names, << cur[j] >>), << SubSeq(cur, j + 1, Len(cur)) >>)
      ELSE ShortNames(cur, j + 1, Append(names, << cur[j] >>)))

RECURSIVE Record(_, _, _, _, _)
\* `for nm in names.iter()`: the options of one argument are recorded; one
\* that takes an argument gets the inline value, else the next argument.
\* acc.next is the position of the next argument to read.
Record(args, names, k, i_arg, acc) ==
    IF k > Len(names) THEN acc
    ELSE With(FindOpt(names[k]), LAMBDA id :
      IF id = 0 THEN [acc EXCEPT !.err = UnrecognizedOption(names[k])]
      ELSE IF ~Opts[id].hasarg
      THEN IF k = Len(names) /\ i_arg # <<>>
           THEN [acc EXCEPT !.err = UnexpectedArgument(names[k])]
           ELSE With([acc EXCEPT !.seen = Append(@, id)], LAMBDA a :
                  Record(args, names, k + 1, i_arg, a))
      ELSE IF i_arg # <<>>
      THEN With([acc EXCEPT !.seen = Append(@, id), !.vals = Append(@, i_arg[1])],
                LAMBDA a : Record(args, names, k + 1, <<>>, a))
      ELSE IF acc.next <= Len(args)
      THEN With([acc EXCEPT !.seen = Append(@, id), !.vals = Append(@, args[acc.next]),
                            !.next = @ + 1],
                LAMBDA a : Record(args, names, k + 1, <<>>, a))
      ELSE [acc EXCEPT !.err = ArgumentMissing(names[k])])

RECURSIVE Scan(_, _)
\* `while let Some(cur) = args.next()`: the options seen (indices in Opts, in
\* order), the values given to the endpoint option, the free arguments, or
\* the first error.
Scan(args, acc) ==
    IF acc.err # "" \/ acc.next > Len(args) THEN acc
    ELSE With(args[acc.next], LAMBDA cur :
         With([acc EXCEPT !.next = @ + 1], LAMBDA a :
           IF ~IsArg(cur) THEN
               With([a EXCEPT !.free = Append(@, cur)], LAMBDA b : Scan(args, b))
           ELSE IF cur = <<"-","-">> THEN
               [a EXCEPT !.free = @ \o SubSeq(args, a.next, Len(args)),
                         !.next = Len(args) + 1]
           ELSE With(IF cur[2] = "-" THEN LongNames(cur) ELSE ShortNames(cur, 2, <<>>),
                     LAMBDA ns :
                  IF ns.err # "" THEN [a EXCEPT !.err = ns.err]
                  ELSE With(Record(args, ns.names, 1, ns.i_arg, a), LAMBDA b :
                         Scan(args, b)))))

Occurrences(seen, id) == Cardinality({i \in 1..Len(seen) : seen[i] = id})

\* opts.parse(&args[1..]): Ok(matches) or Err(e), as one record.  An option
\* given twice is an error found after the scan, the first one in Opts.
Parse(args) ==
    With(Scan(args, [err |-> "", seen |-> <<>>, vals |-> <<>>, free |-> <<>>, next |-> 1]),
         LAMBDA s :
      IF s.err # "" THEN s
      ELSE With({i \in 1..Len(Opts) : Occurrences(s.seen, i) > 1}, LAMBDA dups :
        IF dups = {} THEN s
        ELSE [s EXCEPT !.err =
                 OptionDuplicated(Opts[CHOOSE i \in dups : \A j \in dups : i <= j].long)]))

\* matches.opt_present(name)
OptPresent(m, name) == Occurrences(m.seen, FindOpt(name)) > 0

BriefUsage == "Usage: yggdrasilctl [options] <command> [key=value ...]"
CommandsLine == "Commands: list, getSelf, getPeers, getTree, addPeer, removePeer"

\* opts.usage(brief), as the lines println!/eprintln! make of it.
Usage ==
    << BriefUsage, "", "Options:",
       "    -e, --endpoint URI  Admin socket address (default: tcp://localhost:9001)",
       "    -j, --json          Output as raw JSON",
       "    -h, --help          Print this help",
       "    -v, --version       Print version",
       "" >>

\* env!("CARGO_PKG_VERSION"): the version of the crate the binary is built from.
PkgVersion == "0.1.0"

\* The words of the response wrapper that main() looks for.
StatusKey == <<"s","t","a","t","u","s">>
Success == <<"s","u","c","c","e","s","s">>
ErrorKey == <<"e","r","r","o","r">>
ResponseKey == <<"r","e","s","p","o","n","s","e">>

(***************************************************************************)
(* serde_json values.  t is the variant, s the characters of a String or   *)
(* of a Bool, n the integer of a Number, kids the elements of an Array or  *)
(* the [k, v] entries of an Object.  An Object is serde_json::Map, a       *)
(* BTreeMap: entries sorted by key, one entry per key.  Numbers are the    *)
(* integers (serde_json's PosInt and NegInt).                              *)
(***************************************************************************)
JNull == [t |-> "null", s |-> <<>>, n |-> 0, kids |-> <<>>]
JBool(b) ==
    [t |-> "bool", s |-> IF b THEN <<"t","r","u","e">> ELSE <<"f","a","l","s","e">>,
     n |-> 0, kids |-> <<>>]
JNum(i) == [t |-> "num", s |-> <<>>, n |-> i, kids |-> <<>>]
JStr(text) == [t |-> "str", s |-> text, n |-> 0, kids |-> <<>>]
JArr(elems) == [t |-> "arr", s |-> <<>>, n |-> 0, kids |-> elems]
JObj(entries) == [t |-> "obj", s |-> <<>>, n |-> 0, kids |-> entries]

\* Map::insert: replaces the value of a key already there, else puts the
\* entry at its place in the order of the keys.
MapInsert(entries, k, v) ==
    IF \E i \in 1..Len(entries) : entries[i].k = k
    THEN LET i == CHOOSE i \in 1..Len(entries) : entries[i].k = k
         IN  [entries EXCEPT ![i] = [k |-> k, v |-> v]]
    ELSE LET n == Cardinality({i \in 1..Len(entries) : StrLess(entries[i].k, k)})
         IN  SubSeq(entries, 1, n) \o <<[k |-> k, v |-> v]>> \o SubSeq(entries, n + 1,
           Len(entries))

\* Value::get(key): <<value>> when the value is an object holding the key.
Get(v, key) ==
    IF v.t = "obj" /\ \E i \in 1..Len(v.kids) : v.kids[i].k = key
    THEN << v.kids[CHOOSE i \in 1..Len(v.kids) : v.kids[i].k = key].v >>
    ELSE <<>>

\* value[key]: Null when absent.
Index(v, key) == IF Get(v, key) = <<>> THEN JNull ELSE Get(v, key)[1]

\* Option<Value>::and_then(as_str) / and_then(as_array), as <<x>> or <<>>.
AsStr(opt) == IF opt # <<>> /\ opt[1].t = "str" THEN << opt[1].s >> ELSE <<>>
AsArray(opt) == IF opt # <<>> /\ opt[1].t = "arr" THEN << opt[1].kids >> ELSE <<>>

(***************************************************************************)
(* The text on the socket, as lexical tokens <<kind, text>>:               *)
(*   p  punctuation of JSON                                                *)
(*   s  a string literal, written with the escapes serde_json writes;      *)
(*      text is the string it denotes (its characters, escapes resolved)   *)
(*   n  a number literal that is an integer written without sign of plus,  *)
(*      leading zero, fraction or exponent, and is not -0; text is the     *)
(*      integer.  Other spellings of numbers have no token here.           *)
(*   l  true, false, null                                                  *)
(*   w  whitespace of JSON: space, line feed, tab, carriage return         *)
(*   u  whitespace of Unicode that is none of JSON: form feed, vertical    *)
(*      tab                                                                *)
(*   x  other text of ASCII without whitespace, whose first character      *)
(*      can begin no JSON value                                            *)
(*   b  bytes that are no UTF-8; a line that holds such bytes, between its *)
(*      tokens or within one, is a line with this token                    *)
(* Two tokens in a row are what a lexer makes of their bytes.              *)
(***************************************************************************)
LBrace == <<"p", "{">>
RBrace == <<"p", "}">>
LBracket == <<"p", "[">>
RBracket == <<"p", "]">>
Colon == <<"p", ":">>
Comma == <<"p", ",">>
NL == <<"w", "\n">>
SP == <<"w", " ">>
TAB == <<"w", "\t">>
CR == <<"w", "\r">>
FF == <<"u", "\f">>
VT == <<"u", "U+000B">>
TStr(text) == <<"s", text>>
TNum(i) == <<"n", i>>
TLit(word) == <<"l", word>>
TJunk(text) == <<"x", text>>
NotUtf8 == <<"b", "FF FE">>

\* char::is_whitespace, which str::trim removes.
IsWhitespace(tok) == tok[1] \in {"w", "u"}

RECURSIVE SkipWs(_, _)
\* The parser passes over the whitespace of JSON, and over no other.
SkipWs(ts, i) == IF i <= Len(ts) /\ ts[i][1] = "w" THEN SkipWs(ts, i + 1) ELSE i

RECURSIVE TrimStart(_)
TrimStart(ts) == IF ts # <<>> /\ IsWhitespace(Head(ts)) THEN TrimStart(Tail(ts)) ELSE ts

RECURSIVE TrimEnd(_)
TrimEnd(ts) ==
    IF ts # <<>> /\ IsWhitespace(ts[Len(ts)])
    THEN TrimEnd(SubSeq(ts, 1, Len(ts) - 1)) ELSE ts

\* str::trim
Trim(ts) == TrimEnd(TrimStart(ts))

\* format_escaped_str_contents: the characters JSON escapes, of those of Ascii.
EscapeChar(c) ==
    CASE c = "\"" -> <<"\\","\"">>
      [] c = "\\" -> <<"\\","\\">>
      [] c = "\n" -> <<"\\","n">>
      [] c = "\t" -> <<"\\","t">>
      [] c = "\r" -> <<"\\","r">>
      [] c = "\f" -> <<"\\","f">>
      [] OTHER -> << c >>

\* A string or a key as JSON text writes it, between its quotes.
Quoted(cs) == "\"" \o Str(Flatten([i \in 1..Len(cs) |-> EscapeChar(cs[i])])) \o "\""

\* The bytes a token takes on the socket.
TokLen(tok) ==
    CASE tok[1] = "s" -> Len(Quoted(tok[2]))
      [] tok[1] = "n" -> Len(Decimal(tok[2]))
      [] tok[1] \in {"l", "x"} -> Len(tok[2])
      [] OTHER -> 1

RECURSIVE Offset(_, _)
\* The bytes of ts before ts[i].
Offset(ts, i) == IF i <= 1 THEN 0 ELSE Offset(ts, i - 1) + TokLen(ts[i - 1])

\* Deserializer::peek_error at ts[i]: the column of the byte looked at, or of
\* the last byte when the text has ended.
PeekColumn(ts, i) == IF i > Len(ts) THEN Offset(ts, Len(ts) + 1) ELSE Offset(ts, i) + 1

\* ErrorCode's Display.  A string of TLA+ cannot hold U+0060, which the
\* messages of ExpectedColon, ExpectedListCommaOrEnd and
\* ExpectedObjectCommaOrEnd have where ' stands here.
ExpectedSomeValue == "expected value"
EofWhileParsingValue == "EOF while parsing a value"
EofWhileParsingObject == "EOF while parsing an object"
EofWhileParsingList == "EOF while parsing a list"
ExpectedColon == "expected ':'"
ExpectedListCommaOrEnd == "expected ',' or ']'"
ExpectedObjectCommaOrEnd == "expected ',' or '}'"
KeyMustBeAString == "key must be a string"
TrailingComma == "trailing comma"
TrailingCharacters == "trailing characters"

ParseFail(code, ts, i) ==
    [ok |-> FALSE, v |-> JNull, next |-> 0, err |-> code, col |-> PeekColumn(ts, i)]
ParseOk(v, next) == [ok |-> TRUE, v |-> v, next |-> next, err |-> "", col |-> 0]

RECURSIVE ParseValue(_, _)
RECURSIVE ParseMembers(_, _, _)
RECURSIVE ParseElements(_, _, _)

\* Deserializer::deserialize_any for Value: one JSON value starting at ts[i0]
\* (whitespace skipped).
ParseValue(ts, i0) ==
    With(SkipWs(ts, i0), LAMBDA i :
      IF i > Len(ts) THEN ParseFail(EofWhileParsingValue, ts, i)
      ELSE With(ts[i], LAMBDA tok :
         CASE tok[1] = "s" -> ParseOk(JStr(tok[2]), i + 1)
           [] tok[1] = "n" -> ParseOk(JNum(tok[2]), i + 1)
           [] tok[1] = "l" -> ParseOk(IF tok[2] = "null" THEN JNull
                                      ELSE JBool(tok[2] = "true"), i + 1)
           [] tok = LBrace ->
                With(SkipWs(ts, i + 1), LAMBDA j :
                  IF j > Len(ts) THEN ParseFail(EofWhileParsingObject, ts, j)
                  ELSE IF ts[j] = RBrace THEN ParseOk(JObj(<<>>), j + 1)
                  ELSE ParseMembers(ts, j, <<>>))
           [] tok = LBracket ->
                With(SkipWs(ts, i + 1), LAMBDA j :
                  IF j > Len(ts) THEN ParseFail(EofWhileParsingList, ts, j)
                  ELSE IF ts[j] = RBracket THEN ParseOk(JArr(<<>>), j + 1)
                  ELSE ParseElements(ts, j, <<>>))
           [] OTHER -> ParseFail(ExpectedSomeValue, ts, i)))

\* MapAccess: "key": value pairs up to the closing brace; ts[i] is where a key
\* is to be, the first one or the one after a comma.
ParseMembers(ts, i, acc) ==
    IF i > Len(ts) THEN ParseFail(EofWhileParsingValue, ts, i)
    ELSE IF ts[i] = RBrace THEN ParseFail(TrailingComma, ts, i)
    ELSE IF ts[i][1] # "s" THEN ParseFail(KeyMustBeAString, ts, i)
    ELSE With(SkipWs(ts, i + 1), LAMBDA c :
      IF c > Len(ts) THEN ParseFail(EofWhileParsingObject, ts, c)
      ELSE IF ts[c] # Colon THEN ParseFail(ExpectedColon, ts, c)
      ELSE With(ParseValue(ts, c + 1), LAMBDA r :
        IF ~r.ok THEN r
        ELSE With(MapInsert(acc, ts[i][2], r.v), LAMBDA acc2 :
             With(SkipWs(ts, r.next), LAMBDA d :
               IF d > Len(ts) THEN ParseFail(EofWhileParsingObject, ts, d)
               ELSE IF ts[d] = RBrace THEN ParseOk(JObj(acc2), d + 1)
               ELSE IF ts[d] = Comma
               THEN With(SkipWs(ts, d + 1), LAMBDA k : ParseMembers(ts, k, acc2))
               ELSE ParseFail(ExpectedObjectCommaOrEnd, ts, d)))))

\* SeqAccess: values up to the closing bracket; ts[i] is where a value is to
\* start, the first one or the one after a comma.
ParseElements(ts, i, acc) ==
    IF i <= Len(ts) /\ ts[i] = RBracket THEN ParseFail(TrailingComma, ts, i)
    ELSE With(ParseValue(ts, i), LAMBDA r :
      IF ~r.ok THEN r
      ELSE With(Append(acc, r.v), LAMBDA acc2 :
           With(SkipWs(ts, r.next), LAMBDA d :
             IF d > Len(ts) THEN ParseFail(EofWhileParsingList, ts, d)
             ELSE IF ts[d] = RBracket THEN ParseOk(JArr(acc2), d + 1)
             ELSE IF ts[d] = Comma
             THEN With(SkipWs(ts, d + 1), LAMBDA k : ParseElements(ts, k, acc2))
             ELSE ParseFail(ExpectedListCommaOrEnd, ts, d))))

\* serde_json::from_str: one value, then only whitespace (Deserializer::end).
FromStr(ts) ==
    With(ParseValue(ts, 1), LAMBDA r :
      IF ~r.ok THEN r
      ELSE With(SkipWs(ts, r.next), LAMBDA e :
        IF e > Len(ts) THEN r ELSE ParseFail(TrailingCharacters, ts, e)))

RECURSIVE JoinStr(_, _)
JoinStr(ss, sep) ==
    IF ss = <<>> THEN ""
    ELSE IF Len(ss) = 1 THEN ss[1]
    ELSE ss[1] \o sep \o JoinStr(Tail(ss), sep)

RECURSIVE Compact(_)
\* Value's Display and serde_json::to_string: compact JSON text.
Compact(v) ==
    CASE v.t = "null" -> "null"
      [] v.t = "bool" -> Str(v.s)
      [] v.t = "num" -> Str(Decimal(v.n))
      [] v.t = "str" -> Quoted(v.s)
      [] v.t = "arr" ->
           "[" \o JoinStr([i \in 1..Len(v.kids) |-> Compact(v.kids[i])], ",") \o "]"
      [] v.t = "obj" ->
           "{" \o JoinStr([i \in 1..Len(v.kids) |->
                              Quoted(v.kids[i].k) \o ":" \o Compact(v.kids[i].v)], ",") \o "}"

RECURSIVE JoinToks(_, _)
JoinToks(tss, sep) ==
    IF tss = <<>> THEN <<>>
    ELSE IF Len(tss) = 1 THEN tss[1]
    ELSE tss[1] \o <<sep>> \o JoinToks(Tail(tss), sep)

RECURSIVE ToTokens(_)
\* The same compact text, as the tokens that go on the socket.
ToTokens(v) ==
    CASE v.t = "null" -> << TLit("null") >>
      [] v.t = "bool" -> << TLit(Str(v.s)) >>
      [] v.t = "num" -> << TNum(v.n) >>
      [] v.t = "str" -> << TStr(v.s) >>
      [] v.t = "arr" ->
           <<LBracket>> \o JoinToks([i \in 1..Len(v.kids) |-> ToTokens(v.kids[i])], Comma)
                        \o <<RBracket>>
      [] v.t = "obj" ->
           <<LBrace>> \o JoinToks([i \in 1..Len(v.kids) |->
                                     <<TStr(v.kids[i].k), Colon>> \o ToTokens(v.kids[i].v)],
                                       Comma)
                      \o <<RBrace>>

\* One element or member of a pretty-printed container: its first line after
\* `prefix`, a comma after its last line unless it is the last one.
PrettyItem(prefix, ls, last) ==
    LET body == <<prefix \o ls[1]>> \o Tail(ls)
    IN  IF last THEN body
        ELSE [body EXCEPT ![Len(body)] = @ \o ","]

RECURSIVE PrettyLines(_, _)
\* serde_json::to_string_pretty at nesting depth ind: two spaces per level,
\* "[]" and "{}" for the empty containers.  The first line is not indented.
PrettyLines(v, ind) ==
    LET n == Len(v.kids) IN
    CASE v.t \in {"null", "bool", "num", "str"} -> << Compact(v) >>
      [] v.t = "arr" ->
           IF n = 0 THEN << "[]" >>
           ELSE <<"[">>
                \o Flatten([i \in 1..n |->
                      PrettyItem(Spaces(2 * (ind + 1)),
                                 PrettyLines(v.kids[i], ind + 1), i = n)])
                \o << Spaces(2 * ind) \o "]" >>
      [] v.t = "obj" ->
           IF n = 0 THEN << "{}" >>
           ELSE <<"{">>
                \o Flatten([i \in 1..n |->
                      PrettyItem(Spaces(2 * (ind + 1)) \o Quoted(v.kids[i].k) \o ": ",
                                 PrettyLines(v.kids[i].v, ind + 1), i = n)])
                \o << Spaces(2 * ind) \o "}" >>

\* println!("{}", serde_json::to_string_pretty(v)?)
ToStringPretty(v) == PrettyLines(v, 0)

(***************************************************************************)
(* Request Builder (main, lines 48-64).                                    *)
(***************************************************************************)
\* str::split_once('='): <<[k, v]>> or <<>>.
SplitOnce(tok) ==
    LET at == FindChar(tok, "=", 1) IN
    IF at = 0 THEN <<>>
    ELSE << [k |-> SubSeq(tok, 1, at - 1), v |-> SubSeq(tok, at + 1, Len(tok))] >>

\* A variant that is not the code: the first value given for a key is kept
\* (entry(k).or_insert(v)).
InsertArgumentOnce(m, kv) ==
    IF \E i \in 1..Len(m) : m[i].k = kv.k THEN m
    ELSE MapInsert(m, kv.k, JStr(kv.v))

\* arguments.insert(k.to_string(), Value::String(v.to_string()))
InsertArgument(m, kv) == MapInsert(m, kv.k, JStr(kv.v))

RECURSIVE ParseArguments(_, _, _)
\* for arg in &free[1..] { if let Some((k, v)) = arg.split_once('=') {...} }
ParseArguments(toks, i, m) ==
    IF i > Len(toks) THEN m
    ELSE ParseArguments(toks, i + 1,
                        IF SplitOnce(toks[i]) = <<>> THEN m
                        ELSE InsertArgument(m, SplitOnce(toks[i])[1]))

\* serde_json::json!({"request": command, "arguments": arguments, "keepalive": false})
BuildRequest(toks) ==
    JObj(MapInsert(MapInsert(MapInsert(<<>>,
            <<"r","e","q","u","e","s","t">>, JStr(toks[1])),
            <<"a","r","g","u","m","e","n","t","s">>, JObj(ParseArguments(toks, 2, <<>>))),
            <<"k","e","e","p","a","l","i","v","e">>, JBool(FALSE)))

RECURSIVE StripEveryPrefix(_)
\* A variant that is not the code: every leading "tcp://" removed
\* (trim_start_matches).
StripEveryPrefix(ep) ==
    IF Len(ep) >= Len(TcpPrefix) /\ SubSeq(ep, 1, Len(TcpPrefix)) = TcpPrefix
    THEN StripEveryPrefix(SubSeq(ep, Len(TcpPrefix) + 1, Len(ep)))
    ELSE ep

\* endpoint.strip_prefix("tcp://").unwrap_or(&endpoint)
StripPrefix(ep) ==
    IF Len(ep) >= Len(TcpPrefix) /\ SubSeq(ep, 1, Len(TcpPrefix)) = TcpPrefix
    THEN SubSeq(ep, Len(TcpPrefix) + 1, Len(ep))
    ELSE ep

(***************************************************************************)
(* Presenter (main, lines 113-192, and print_kv).                          *)
(***************************************************************************)
SelfFields ==
    << <<"Build name", <<"b","u","i","l","d","_","n","a","m","e">>>>,
       <<"Build version", <<"b","u","i","l","d","_","v","e","r","s","i","o","n">>>>,
       <<"Public key", <<"k","e","y">>>>,
       <<"IPv6 address", <<"a","d","d","r","e","s","s">>>>,
       <<"IPv6 subnet", <<"s","u","b","n","e","t">>>>,
       <<"Routing entries", <<"r","o","u","t","i","n","g","_","e","n","t","r","i","e","s">>>> >>

PeerFields ==
    << <<"URI", <<"u","r","i">>>>,
       <<"Up", <<"u","p">>>>,
       <<"Inbound", <<"i","n","b","o","u","n","d">>>>,
       <<"Public key", <<"k","e","y">>>>,
       <<"IPv6 address", <<"a","d","d","r","e","s","s">>>>,
       <<"IPv6 subnet", <<"s","u","b","n","e","t">>>>,
       <<"Priority", <<"p","r","i","o","r","i","t","y">>>>,
       <<"Bytes received", <<"b","y","t","e","s","_","r","e","c","v","d">>>>,
       <<"Bytes sent", <<"b","y","t","e","s","_","s","e","n","t">>>>,
       <<"RX rate", <<"r","x","_","r","a","t","e">>>>,
       <<"TX rate", <<"t","x","_","r","a","t","e">>>>,
       <<"Uptime", <<"u","p","t","i","m","e">>>>,
       <<"Last error", <<"l","a","s","t","_","e","r","r","o","r">>>> >>

TreeFields ==
    << <<"Public key", <<"k","e","y">>>>,
       <<"IPv6 address", <<"a","d","d","r","e","s","s">>>>,
       <<"Parent", <<"p","a","r","e","n","t">>>>,
       <<"Sequence", <<"s","e","q","u","e","n","c","e">>>> >>

NoPeers == "No peers connected."
NoTree == "No tree entries."

\* fields.iter().map(|(l, _)| l.len()).max().unwrap_or(0)
MaxLabel(fields) ==
    IF fields = <<>> THEN 0
    ELSE LET lens == {Len(fields[i][1]) : i \in 1..Len(fields)}
         IN  CHOOSE n \in lens : \A m \in lens : m <= n

\* The val_str of print_kv.
ValStr(val) ==
    CASE val.t = "str" -> Str(val.s)
      [] val.t = "null" -> "n/a"
      [] OTHER -> Compact(val)

\* print_kv: one line per field of the table that the object holds.
PrintKv(obj, fields) ==
    Flatten([i \in 1..Len(fields) |->
        IF Get(obj, fields[i][2]) = <<>> THEN <<>>
        ELSE << "  " \o PadRight(fields[i][1] \o ":", MaxLabel(fields) + 1)
                     \o "  " \o ValStr(Get(obj, fields[i][2])[1]) >>])

\* The "list" arm.
RenderList(response) ==
    LET list == AsArray(Get(response, <<"l","i","s","t">>)) IN
    IF list = <<>> THEN <<>>
    ELSE <<"Available commands:">>
         \o Flatten([i \in 1..Len(list[1]) |->
                IF list[1][i].t = "str" THEN << "  " \o Str(list[1][i].s) >> ELSE <<>>])

\* A variant that is not the code: a blank line after every block, the last
\* one included.
RenderEntriesBlankAfter(response, key, none, fields) ==
    LET arr == AsArray(Get(response, key)) IN
    IF arr = <<>> THEN <<>>
    ELSE IF arr[1] = <<>> THEN << none >>
    ELSE Flatten([i \in 1..Len(arr[1]) |-> PrintKv(arr[1][i], fields) \o <<"">>])

\* The "getpeers" and "gettree" arms: the array under `key`, `none` when it
\* is empty, else a block per entry with a println!() before all but the first.
RenderEntries(response, key, none, fields) ==
    LET arr == AsArray(Get(response, key)) IN
    IF arr = <<>> THEN <<>>
    ELSE IF arr[1] = <<>> THEN << none >>
    ELSE Flatten([i \in 1..Len(arr[1]) |->
            (IF i > 1 THEN <<"">> ELSE <<>>) \o PrintKv(arr[1][i], fields)])

\* match command.to_lowercase().as_str() { ... }
RenderCommand(command, response) ==
    LET c == Str(ToLowercase(command)) IN
    CASE c = "list" -> RenderList(response)
      [] c = "getself" -> PrintKv(response, SelfFields)
      [] c = "getpeers" -> RenderEntries(response, <<"p","e","e","r","s">>, NoPeers, PeerFields)
      [] c = "gettree" -> RenderEntries(response, <<"t","r","e","e">>, NoTree, TreeFields)
      [] OTHER -> ToStringPretty(response)

(***************************************************************************)
(* Response Interpreter (main, lines 86-111).                              *)
(***************************************************************************)
\* A variant that is not the code: a missing status taken for a success.
StatusDefaultSuccess(resp) ==
    IF AsStr(Get(resp, StatusKey)) = <<>> THEN "success"
    ELSE Str(AsStr(Get(resp, StatusKey))[1])

\* resp.get("status").and_then(|v| v.as_str()).unwrap_or("unknown")
Status(resp) ==
    IF AsStr(Get(resp, StatusKey)) = <<>> THEN "unknown"
    ELSE Str(AsStr(Get(resp, StatusKey))[1])

\* resp.get("error").and_then(|v| v.as_str()).unwrap_or("unknown error")
ErrorMessage(resp) ==
    IF AsStr(Get(resp, ErrorKey)) = <<>> THEN "unknown error"
    ELSE Str(AsStr(Get(resp, ErrorKey))[1])

\* What main() returning the serde_json::Error prints: "Error: {e:?}".  The
\* text parsed is one line.
ParseDiagnostic(r) ==
    "Error: Error(\"" \o r.err \o "\", line: 1, column: " \o Str(Decimal(r.col)) \o ")"

\* A step of main() and how it went: Ok or Err.
Step(op, ok) == [op |-> op, ok |-> ok]
\* Steps that all went well.
Steps(ops) == [i \in 1..Len(ops) |-> Step(ops[i], TRUE)]

\* How main() ends after the read: exit status, place, output, and the steps
\* it ran to get there.
Outcome(code, at, out, err, steps) ==
    [code |-> code, at |-> at, out |-> out, err |-> err, steps |-> steps]

\* A variant that is not the code: the status checked before the json flag is
\* looked at, so that the wrapper is printed for a success only.
InterpretStatusFirst(ln, command, json) ==
    With(Trim(ln), LAMBDA text :
      IF text = <<>>
      THEN Outcome(1, "empty_response", <<>>, <<"Empty response from admin socket">>, <<>>)
      ELSE With(FromStr(text), LAMBDA r :
        IF ~r.ok
        THEN Outcome(1, "bad_json", <<>>, <<ParseDiagnostic(r)>>,
                     <<Step("from_str", FALSE)>>)
        ELSE IF Status(r.v) # "success"
        THEN Outcome(1, "protocol_error", <<>>, <<"Error: " \o ErrorMessage(r.v)>>,
                     Steps(<<"from_str", "status_check">>))
        ELSE IF json
        THEN Outcome(0, "json", ToStringPretty(r.v), <<>>,
                     Steps(<<"from_str", "status_check", "pretty_wrapper">>))
        ELSE With(Index(r.v, ResponseKey), LAMBDA response :
               Outcome(0, "rendered", RenderCommand(command, response), <<>>,
                       Steps(<<"from_str", "status_check", "render">>)))))

\* Everything main() does with the line read_line filled (lines 86-194).
Interpret(ln, command, json) ==
    With(Trim(ln), LAMBDA text :
      IF text = <<>>
      THEN Outcome(1, "empty_response", <<>>, <<"Empty response from admin socket">>, <<>>)
      ELSE With(FromStr(text), LAMBDA r :
        IF ~r.ok
        THEN Outcome(1, "bad_json", <<>>, <<ParseDiagnostic(r)>>,
                     <<Step("from_str", FALSE)>>)
        ELSE IF json
        THEN Outcome(0, "json", ToStringPretty(r.v), <<>>, Steps(<<"from_str", "pretty_wrapper">>))
        ELSE IF Status(r.v) # "success"
        THEN Outcome(1, "protocol_error", <<>>, <<"Error: " \o ErrorMessage(r.v)>>,
                     Steps(<<"from_str", "status_check">>))
        ELSE With(Index(r.v, ResponseKey), LAMBDA response :
               Outcome(0, "rendered", RenderCommand(command, response), <<>>,
                       Steps(<<"from_str", "status_check", "render">>)))))

(***************************************************************************)
(* What the daemon may answer: lines of tokens, well-formed or not.        *)
(***************************************************************************)
Entry1 ==
    JObj(<< [k |-> <<"a","d","d","r","e","s","s">>, v |-> JNull],
            [k |-> <<"k","e","y">>, v |-> JStr(<<"k","1">>)],
            [k |-> <<"u","p">>, v |-> JBool(TRUE)] >>)
Entry2 ==
    JObj(<< [k |-> <<"k","e","y">>, v |-> JStr(<<"k","2">>)],
            [k |-> <<"s","e","q","u","e","n","c","e">>, v |-> JNum(7)],
            [k |-> <<"u","r","i">>, v |-> JStr(<<"t","l","s",":","/","/","h">>)] >>)
EntryObjs == {Entry1, Entry2}

\* {"status":"success","response":{"peers":A,"tree":A}}
EntriesReply(A) ==
    <<LBrace, TStr(StatusKey), Colon, TStr(Success), Comma, TStr(ResponseKey), Colon,
      LBrace, TStr(<<"p","e","e","r","s">>), Colon>>
      \o ToTokens(JArr(A)) \o <<Comma, TStr(<<"t","r","e","e">>), Colon>>
      \o ToTokens(JArr(A)) \o <<RBrace, RBrace, NL>>

FixedReplies ==
    { \* {"status":"success","response":{"list":["getSelf",5,"getPeers"]}}
      <<LBrace, TStr(StatusKey), Colon, TStr(Success), Comma, TStr(ResponseKey), Colon,
        LBrace, TStr(<<"l","i","s","t">>), Colon, LBracket,
          TStr(<<"g","e","t","S","e","l","f">>), Comma, TNum(5), Comma,
        TStr(<<"g","e","t","P","e","e","r","s">>), RBracket, RBrace, RBrace, NL>>,
      \* { "response": {"build_name":"yggdrasil","key":null,"routing_entries":42},
      \*   "status": "success" }, spaced, with blanks around it
      <<SP, LBrace, SP, TStr(ResponseKey), Colon, SP, LBrace,
        TStr(<<"b","u","i","l","d","_","n","a","m","e">>), Colon,
        TStr(<<"y","g","g","d","r","a","s","i","l">>), Comma, TStr(<<"k","e","y">>), Colon,
          TLit("null"), Comma,
        TStr(<<"r","o","u","t","i","n","g","_","e","n","t","r","i","e","s">>), Colon,
          TNum(42), RBrace, Comma, SP, TStr(StatusKey),
        Colon, TStr(Success), SP, RBrace, SP, NL>>,
      \* {"status":"success","response":{"peers":[{},7,Entry1]}}
      <<LBrace, TStr(StatusKey), Colon, TStr(Success), Comma, TStr(ResponseKey), Colon,
        LBrace, TStr(<<"p","e","e","r","s">>), Colon, LBracket, LBrace, RBrace, Comma,
          TNum(7), Comma>>
        \o ToTokens(Entry1) \o <<RBracket, RBrace, RBrace, NL>>,
      \* {"status":"success"}
      <<LBrace, TStr(StatusKey), Colon, TStr(Success), RBrace, NL>>,
      \* {"status":"error","error":"unknown command"}
      <<LBrace, TStr(StatusKey), Colon, TStr(ErrorKey), Comma, TStr(ErrorKey), Colon,
        TStr(<<"u","n","k","n","o","w","n"," ","c","o","m","m","a","n","d">>), RBrace, NL>>,
      \* {"status":"failed","error":5,"response":{"list":[]}}
      <<LBrace, TStr(StatusKey), Colon, TStr(<<"f","a","i","l","e","d">>), Comma,
        TStr(ErrorKey), Colon,
        TNum(5), Comma, TStr(ResponseKey), Colon, LBrace, TStr(<<"l","i","s","t">>), Colon,
        LBracket, RBracket, RBrace, RBrace, NL>>,
      \* {"status":null,"response":{}}
      <<LBrace, TStr(StatusKey), Colon, TLit("null"), Comma, TStr(ResponseKey), Colon,
        LBrace, RBrace, RBrace, NL>>,
      \* {"response":{"peers":[]}}: no status
      <<LBrace, TStr(ResponseKey), Colon, LBrace, TStr(<<"p","e","e","r","s">>), Colon,
        LBracket, RBracket,
        RBrace, RBrace, NL>>,
      \* ["success"]: JSON, but no object
      <<LBracket, TStr(Success), RBracket, NL>>,
      \* {"status":"success",}: no JSON
      <<LBrace, TStr(StatusKey), Colon, TStr(Success), Comma, RBrace, NL>>,
      \* not JSON at all
      <<TJunk("HTTP/1.1"), SP, TNum(400), NL>>,
      \* a blank line
      <<SP, NL>>,
      \* bytes that are no UTF-8, then {"status":"success"}
      <<NotUtf8, LBrace, TStr(StatusKey), Colon, TStr(Success), RBrace, NL>>,
      \* such bytes and no newline
      <<NotUtf8>>,
      \* a form feed and the newline: blank for str::trim
      <<FF, NL>>,
      \* {"status":"success","response":{"key":["q\"x"],"address":"c\\d"}} between a
      \* form feed and a vertical tab, the line ended by CR LF
      <<FF, LBrace, TStr(StatusKey), Colon, TStr(Success), Comma, TStr(ResponseKey), Colon,
        LBrace, TStr(<<"k","e","y">>), Colon, LBracket, TStr(<<"q","\"","x">>), RBracket, Comma,
        TStr(<<"a","d","d","r","e","s","s">>), Colon, TStr(<<"c","\\","d">>), RBrace, RBrace,
          VT, CR, NL>>,
      \* {"status":"success" <form feed> }: no JSON
      <<LBrace, TStr(StatusKey), Colon, TStr(Success), FF, RBrace, NL>>,
      \* {"status":"error","status":"success","response":{"list":[]}}, tabs between:
      \* the last value of a key is the one kept
      <<LBrace, TStr(StatusKey), Colon, TStr(ErrorKey), Comma, TAB, TStr(StatusKey), Colon,
        TStr(Success), Comma, TAB, TStr(ResponseKey), Colon, LBrace,
          TStr(<<"l","i","s","t">>), Colon,
        LBracket, RBracket, RBrace, RBrace, NL>>,
      \* two lines: {"status":"success","response":{"tree":[]}} and {"status":"error"}
      <<LBrace, TStr(StatusKey), Colon, TStr(Success), Comma, TStr(ResponseKey), Colon,
        LBrace, TStr(<<"t","r","e","e">>), Colon, LBracket, RBracket, RBrace, RBrace, NL,
        LBrace, TStr(StatusKey), Colon, TStr(ErrorKey), RBrace, NL>> }

Replies == FixedReplies \cup {EntriesReply(A) : A \in SeqsUpTo(EntryObjs, MaxEntries)}

\* A success and an error.
BasicReplies ==
    { EntriesReply(<<>>),
      <<LBrace, TStr(StatusKey), Colon, TStr(ErrorKey), Comma, TStr(ErrorKey), Colon,
        TStr(<<"u","n","k","n","o","w","n"," ","c","o","m","m","a","n","d">>), RBrace, NL>> }

\* Short answers: a success, an error, a blank line, no JSON.
ShortReplies ==
    { <<LBrace, TStr(StatusKey), Colon, TStr(Success), RBrace, NL>>,
      <<LBrace, TStr(StatusKey), Colon, TStr(ErrorKey), RBrace, NL>>,
      <<SP, NL>>,
      <<TJunk("HTTP/1.1"), NL>> }

\* Command lines for each way main() can leave the argument handling.
ShortRuns ==
    PlainRuns \cup { <<>>, << <<"-","h">> >>, << <<"-","v">> >>, << <<"-","x">> >>,
                     << <<"-","e">>, EpNumeric, <<"l","i","s","t">>, <<"a","=","b">> >> }

\* What getaddrinfo answers: an address, or one of its errors (gai_strerror).
Lookups ==
    { "address",
      "Name or service not known",
      "Temporary failure in name resolution",
      "No address associated with hostname" }

\* What the connect to the socket address meets: a daemon that listens, or an
\* error of connect(2) (the io::Error's Display: strerror and the number).
Remotes ==
    { "listening",
      "Connection refused (os error 111)",
      "Network is unreachable (os error 101)",
      "No route to host (os error 113)",
      "Connection timed out (os error 110)",
      "Permission denied (os error 13)" }

\* The runs of the model: every command line against the basic replies,
\* every reply against the plain command lines, and the short scenarios, all
\* with a host that resolves and a daemon that listens; and every endpoint in
\* every environment.
Scenarios ==
    (((ArgvSet \X BasicReplies) \cup (PlainRuns \X Replies) \cup (ShortRuns \X ShortReplies))
        \X {<<"address", "listening">>})
    \cup ((ConnectRuns \X {EntriesReply(<<>>)}) \X (Lookups \X Remotes))

(***************************************************************************)
(* The run.                                                                *)
(***************************************************************************)
Init ==
    /\ \E sc \in Scenarios :
          /\ argv = sc[1][1]
          /\ script = sc[1][2]
          /\ lookup = sc[2][1]
          /\ remote = sc[2][2]
    /\ pc = "start"
    /\ endpoint = <<>>
    /\ json_output = FALSE
    /\ free = <<>>
    /\ request = JNull
    /\ conn_addr = <<>>
    /\ conn_err = <<>>
    /\ peer = "none"
    /\ wire_out = <<>>
    /\ pending = <<>>
    /\ inbuf = <<>>
    /\ line = <<>>
    /\ stdout = <<>>
    /\ stderr = <<>>
    /\ exit_code = -1
    /\ exit_at = ""
    /\ log = <<>>

\* The process ends: std::process::exit(code), or main() returns.
Exit(code, at, out, err) ==
    /\ pc' = "done"
    /\ exit_code' = code
    /\ exit_at' = at
    /\ stdout' = stdout \o out
    /\ stderr' = stderr \o err

\* The locals set on lines 35-38.
ReadMatches(m) ==
    /\ endpoint' = IF m.vals = <<>> THEN DefaultEndpoint ELSE m.vals[1]
    /\ json_output' = OptPresent(m, <<"j","s","o","n">>)
    /\ free' = m.free

\* Lines 15-22: opts.parse fails.
ArgsError ==
    /\ pc = "start"
    /\ \E matches \in {Parse(argv)} :
          /\ matches.err # ""
          /\ Exit(1, "parse_error", <<>>, <<"Error: " \o matches.err>> \o Usage)
    /\ log' = Append(log, Step("parse", FALSE))
    /\ UNCHANGED <<argv, script, lookup, remote, conn_err, endpoint, json_output, free,
                   request, conn_addr, peer, wire_out, pending, inbuf, line>>

\* Lines 24-28.
Help ==
    /\ pc = "start"
    /\ \E matches \in {Parse(argv)} :
          /\ matches.err = ""
          /\ OptPresent(matches, <<"h","e","l","p">>)
    /\ Exit(0, "help", Usage \o <<CommandsLine>>, <<>>)
    /\ log' = Append(log, Step("parse", TRUE))
    /\ UNCHANGED <<argv, script, lookup, remote, conn_err, endpoint, json_output, free,
                   request, conn_addr, peer, wire_out, pending, inbuf, line>>

\* Lines 30-33.
Version ==
    /\ pc = "start"
    /\ \E matches \in {Parse(argv)} :
          /\ matches.err = ""
          /\ ~OptPresent(matches, <<"h","e","l","p">>)
          /\ OptPresent(matches, <<"v","e","r","s","i","o","n">>)
    /\ Exit(0, "version", <<"yggdrasilctl " \o PkgVersion>>, <<>>)
    /\ log' = Append(log, Step("parse", TRUE))
    /\ UNCHANGED <<argv, script, lookup, remote, conn_err, endpoint, json_output, free,
                   request, conn_addr, peer, wire_out, pending, inbuf, line>>

\* Lines 35-46: no free argument.
NoCommand ==
    /\ pc = "start"
    /\ \E matches \in {Parse(argv)} :
          /\ matches.err = ""
          /\ ~OptPresent(matches, <<"h","e","l","p">>)
          /\ ~OptPresent(matches, <<"v","e","r","s","i","o","n">>)
          /\ matches.free = <<>>
          /\ ReadMatches(matches)
    /\ Exit(1, "no_command", <<>>, <<BriefUsage, CommandsLine>>)
    /\ log' = Append(log, Step("parse", TRUE))
    /\ UNCHANGED <<argv, script, lookup, remote, conn_err, request, conn_addr, peer,
                   wire_out, pending, inbuf, line>>

\* A variant that is not the code: the command taken up without a look at the
\* help and version flags.
BuildDespiteFlags ==
    /\ pc = "start"
    /\ \E matches \in {Parse(argv)} :
          /\ matches.err = ""
          /\ matches.free # <<>>
          /\ ReadMatches(matches)
          /\ request' = BuildRequest(matches.free)
    /\ pc' = "built"
    /\ log' = log \o Steps(<<"parse", "build">>)
    /\ UNCHANGED <<argv, script, lookup, remote, conn_err, conn_addr, peer, wire_out,
                   pending, inbuf, line, stdout, stderr, exit_code, exit_at>>

\* Lines 35-60: the command and its arguments become the request.
Build ==
    /\ pc = "start"
    /\ \E matches \in {Parse(argv)} :
          /\ matches.err = ""
          /\ ~OptPresent(matches, <<"h","e","l","p">>)
          /\ ~OptPresent(matches, <<"v","e","r","s","i","o","n">>)
          /\ matches.free # <<>>
          /\ ReadMatches(matches)
          /\ request' = BuildRequest(matches.free)
    /\ pc' = "built"
    /\ log' = log \o Steps(<<"parse", "build">>)
    /\ UNCHANGED <<argv, script, lookup, remote, conn_err, conn_addr, peer, wire_out,
                   pending, inbuf, line, stdout, stderr, exit_code, exit_at>>

RECURSIVE LastChar(_, _, _)
\* Index of the last c in cs at or before i, 0 when there is none.
LastChar(cs, c, i) ==
    IF i < 1 THEN 0
    ELSE IF cs[i] = c THEN i
    ELSE LastChar(cs, c, i - 1)

CharAt(cs, i, c) == i >= 1 /\ i <= Len(cs) /\ cs[i] = c

\* char::to_digit(radix) is Some, for the radix 10 or 16.
IsRadixDigit(c, radix) ==
    IsDigit(c) \/ (radix = 16 /\ c \in {"a","b","c","d","e","f","A","B","C","D","E","F"})

RECURSIVE DigitsEnd(_, _, _)
\* The index after the digits that start at i.
DigitsEnd(cs, i, radix) ==
    IF i <= Len(cs) /\ IsRadixDigit(cs[i], radix) THEN DigitsEnd(cs, i + 1, radix) ELSE i

RECURSIVE Fits(_, _, _, _)
\* The decimal digits cs[i..j-1] are a number of at most max (its digits): the
\* checked arithmetic of the parse does not overflow.  Leading zeros add
\* nothing.
Fits(cs, i, j, max) ==
    IF i < j /\ cs[i] = "0" THEN Fits(cs, i + 1, j, max)
    ELSE \/ j - i < Len(max)
         \/ j - i = Len(max) /\ ~StrLess(max, SubSeq(cs, i, j - 1))

U16Max == <<"6","5","5","3","5">>

\* port_str.parse::<u16>() is Ok: digits, after a "+" or not, within u16.
ValidPort(cs) ==
    With(IF cs # <<>> /\ cs[1] = "+" THEN Tail(cs) ELSE cs, LAMBDA ds :
      /\ ds # <<>>
      /\ \A i \in 1..Len(ds) : IsDigit(ds[i])
      /\ Fits(ds, 1, Len(ds) + 1, U16Max))

\* Why the conversion of addr to socket addresses fails when addr is no socket
\* address itself, "" when it does not: the port is what follows the last ":"
\* (<&str as ToSocketAddrs>).
AddrError(addr) ==
    With(LastChar(addr, ":", Len(addr)), LAMBDA at :
      IF at = 0 THEN "invalid socket address"
      ELSE IF ~ValidPort(SubSeq(addr, at + 1, Len(addr))) THEN "invalid port value"
      ELSE "")

\* std::net's Parser::read_number at index i: the index after the number, or
\* 0 for None.  max_digits = 0 stands for no limit; max is that of the type.
\* Four hexadecimal digits are within u16, so only decimals are compared.
ReadNumber(cs, i, radix, max_digits, allow_zero_prefix, max) ==
    With(DigitsEnd(cs, i, radix), LAMBDA j :
      IF j = i THEN 0
      ELSE IF max_digits > 0 /\ j - i > max_digits THEN 0
      ELSE IF ~allow_zero_prefix /\ cs[i] = "0" /\ j - i > 1 THEN 0
      ELSE IF radix = 10 /\ ~Fits(cs, i, j, max) THEN 0
      ELSE j)

RECURSIVE ReadIpv4Addr(_, _, _)
\* Parser::read_ipv4_addr at index i, from part k of the four on: decimal
\* parts of at most 255, none with a leading zero, "." between them.
ReadIpv4Addr(cs, i, k) ==
    IF k = 4 THEN i
    ELSE IF k > 0 /\ ~CharAt(cs, i, ".") THEN 0
    ELSE With(ReadNumber(cs, IF k > 0 THEN i + 1 ELSE i, 10, 3, FALSE, <<"2","5","5">>),
         LAMBDA j : IF j = 0 THEN 0 ELSE ReadIpv4Addr(cs, j, k + 1))

RECURSIVE ReadGroups(_, _, _, _)
\* read_groups of Parser::read_ipv6_addr, at group i of limit: the index it
\* stops at, the number of groups read, and whether an IPv4 address ended them.
ReadGroups(cs, pos, i, limit) ==
    IF i >= limit THEN <<pos, i, FALSE>>
    ELSE With(IF i = 0 THEN pos ELSE IF CharAt(cs, pos, ":") THEN pos + 1 ELSE 0,
         LAMBDA from :
           IF from = 0 THEN <<pos, i, FALSE>>
           ELSE With(IF i < limit - 1 THEN ReadIpv4Addr(cs, from, 0) ELSE 0, LAMBDA v4 :
                  IF v4 # 0 THEN <<v4, i + 2, TRUE>>
                  ELSE With(ReadNumber(cs, from, 16, 4, TRUE, U16Max), LAMBDA g :
                         IF g = 0 THEN <<pos, i, FALSE>>
                         ELSE ReadGroups(cs, g, i + 1, limit))))

\* Parser::read_ipv6_addr at index i: eight groups, or fewer around one "::".
ReadIpv6Addr(cs, i) ==
    With(ReadGroups(cs, i, 0, 8), LAMBDA head :
      IF head[2] = 8 THEN head[1]
      ELSE IF head[3] THEN 0
      ELSE IF ~(CharAt(cs, head[1], ":") /\ CharAt(cs, head[1] + 1, ":")) THEN 0
      ELSE ReadGroups(cs, head[1] + 2, 0, 7 - head[2])[1])

\* Parser::read_port at index i.
ReadPort(cs, i) == IF CharAt(cs, i, ":") THEN ReadNumber(cs, i + 1, 10, 0, TRUE, U16Max) ELSE 0

\* Parser::read_socket_addr_v6: "[", the address, a "%" and a scope id (u32)
\* or none, "]", the port.
ReadSocketAddrV6(cs) ==
    IF ~CharAt(cs, 1, "[") THEN 0
    ELSE With(ReadIpv6Addr(cs, 2), LAMBDA ip :
      IF ip = 0 THEN 0
      ELSE With(IF CharAt(cs, ip, "%")
                THEN ReadNumber(cs, ip + 1, 10, 0, TRUE,
                                <<"4","2","9","4","9","6","7","2","9","5">>)
                ELSE ip,
           LAMBDA scope :
             IF scope = 0 \/ ~CharAt(cs, scope, "]") THEN 0 ELSE ReadPort(cs, scope + 1)))

\* addr.parse::<SocketAddr>() is Ok: the whole of addr is an IPv4 address and
\* a port, or an IPv6 address in brackets and a port.  The connect then goes
\* to it, and the resolver is not asked.
IsSocketAddr(addr) ==
    \/ With(ReadIpv4Addr(addr, 1, 0), LAMBDA ip :
          ip # 0 /\ ReadPort(addr, ip) = Len(addr) + 1)
    \/ ReadSocketAddrV6(addr) = Len(addr) + 1

\* The error TcpStream::connect(addr) returns in the environment of the run:
\* that of the text of addr, of the lookup of its host, of the connect to the
\* address; or, from a daemon that resets the connection it accepts, the reset.
ConnectCause(addr) ==
    IF ~IsSocketAddr(addr) /\ AddrError(addr) # "" THEN AddrError(addr)
    ELSE IF ~IsSocketAddr(addr) /\ lookup # "address"
    THEN "failed to lookup address information: " \o lookup
    ELSE IF remote # "listening" THEN remote
    ELSE "Connection reset by peer (os error 104)"

\* <str as Debug>: the characters it escapes, of those of Ascii.
DebugChar(c) ==
    CASE c = "\"" -> <<"\\","\"">>
      [] c = "\\" -> <<"\\","\\">>
      [] c = "\n" -> <<"\\","n">>
      [] c = "\t" -> <<"\\","t">>
      [] c = "\r" -> <<"\\","r">>
      [] c = "\f" -> <<"\\","u","{","c","}">>
      [] OTHER -> << c >>

\* format!("Failed to connect to admin socket at {}: {}", endpoint, e), as main()
\* returning it prints it: "Error: " and the Debug form of the string.
ConnectError(ep, cause) ==
    "Error: \"Failed to connect to admin socket at "
        \o Str(Flatten([i \in 1..Len(ep) |-> DebugChar(ep[i])])) \o ": " \o cause \o "\""

\* Lines 62-73: TcpStream::connect(addr) succeeds: addr is or resolves to a
\* socket address, and the daemon listens there.
ConnectOk ==
    /\ pc = "built"
    /\ \E addr \in {StripPrefix(endpoint)} :
          \/ IsSocketAddr(addr)
          \/ AddrError(addr) = "" /\ lookup = "address"
    /\ remote = "listening"
    /\ conn_addr' = << StripPrefix(endpoint) >>
    /\ peer' = "open"
    /\ pc' = "connected"
    /\ log' = Append(log, Step("connect", TRUE))
    /\ UNCHANGED <<argv, script, lookup, remote, conn_err, endpoint, json_output, free,
                   request, wire_out, pending, inbuf, line, stdout, stderr, exit_code,
                   exit_at>>

\* Lines 62-71: it fails, and `?` returns the mapped error.
ConnectFail ==
    /\ pc = "built"
    /\ conn_addr' = << StripPrefix(endpoint) >>
    /\ \E cause \in {ConnectCause(StripPrefix(endpoint))} :
          /\ conn_err' = << cause >>
          /\ Exit(1, "connect_error", <<>>, <<ConnectError(endpoint, cause)>>)
    /\ log' = Append(log, Step("connect", FALSE))
    /\ UNCHANGED <<argv, script, lookup, remote, endpoint, json_output, free, request,
                   peer, wire_out, pending, inbuf, line>>

BrokenPipe == "Error: Os { code: 32, kind: BrokenPipe, message: \"Broken pipe\" }"
ConnReset ==
    "Error: Os { code: 104, kind: ConnectionReset, message: \"Connection reset by peer\" }"

\* What a write or a read on a connection that was reset fails with: the error
\* the reset left on the socket, or EPIPE.
IoErrors == {BrokenPipe, ConnReset}

\* A write to the socket: it fails once the connection was reset.
Write(op, toks, next) ==
    /\ IF peer \in {"reset", "closed_reset"}
       THEN /\ \E e \in IoErrors : Exit(1, "io_error", <<>>, <<e>>)
            /\ log' = Append(log, Step(op, FALSE))
            /\ UNCHANGED wire_out
       ELSE /\ wire_out' = wire_out \o toks
            /\ pc' = next
            /\ log' = Append(log, Step(op, TRUE))
            /\ UNCHANGED <<stdout, stderr, exit_code, exit_at>>
    /\ UNCHANGED <<argv, script, lookup, remote, conn_err, endpoint, json_output, free,
                   request, conn_addr, peer, pending, inbuf, line>>

\* Lines 77-78: write_all(req_json.as_bytes())
WriteRequest == pc = "connected" /\ Write("write_req", ToTokens(request), "wrote_req")

\* A variant that is not the code: a client that ends the request with two newlines.
WriteNewlineTwice == pc = "wrote_req" /\ Write("write_nl", <<NL, NL>>, "wrote_nl")

\* Line 79: write_all(b"\n")
WriteNewline == pc = "wrote_req" /\ Write("write_nl", <<NL>>, "wrote_nl")

\* Line 80: flush() of a TCP write half has nothing to do and succeeds.
Flush ==
    /\ pc = "wrote_nl"
    /\ pc' = "flushed"
    /\ log' = Append(log, Step("flush", TRUE))
    /\ UNCHANGED <<argv, script, lookup, remote, conn_err, endpoint, json_output, free,
                   request, conn_addr, peer, wire_out, pending, inbuf, line, stdout,
                   stderr, exit_code, exit_at>>

HasNewline(buf) == \E i \in 1..Len(buf) : buf[i] = NL

\* A variant that is not the code: a read that returns whatever has arrived.
ReadReadyAtOnce == TRUE

\* read_line can return: a newline has arrived, or the stream has ended.
ReadReady == HasNewline(inbuf) \/ peer \in {"closed", "reset", "closed_reset"}

\* A variant that is not the code: a read that fails after every reset, also
\* when the end of the stream had been seen before it.
ReadFailsAfterClose == peer \in {"reset", "closed_reset"} /\ ~HasNewline(inbuf)

\* The read of the socket fails: the connection was reset while open, and what
\* had arrived before holds no newline.  After a FIN the socket reads as at
\* its end (what has arrived, then EOF), whether a reset followed or not.
ReadFails == peer = "reset" /\ ~HasNewline(inbuf)

InvalidUtf8 ==
    "Error: Custom { kind: InvalidData, error: \"stream did not contain valid UTF-8\" }"

\* What read_line appends: through the first newline, or all there is at EOF.
TakeLine(buf) ==
    IF HasNewline(buf)
    THEN SubSeq(buf, 1, CHOOSE i \in 1..Len(buf) :
                            buf[i] = NL /\ \A j \in 1..(i - 1) : buf[j] # NL)
    ELSE buf

\* The errors read_line returns with when it returns now: that of the socket,
\* or that of bytes that are no UTF-8 in what it was to append.
ReadErrors ==
    IF ReadFails THEN IoErrors
    ELSE IF \E i \in 1..Len(TakeLine(inbuf)) : TakeLine(inbuf)[i][1] = "b" THEN {InvalidUtf8}
    ELSE {}

\* Lines 83-194: read_line returns Ok, and main() runs to its end.
ReadLine ==
    /\ pc = "flushed"
    /\ ReadReady
    /\ ReadErrors = {}
    /\ line' = TakeLine(inbuf)
    /\ \E o \in {Interpret(TakeLine(inbuf), free[1], json_output)} :
          /\ Exit(o.code, o.at, o.out, o.err)
          /\ log' = log \o <<Step("read_line", TRUE)>> \o o.steps
    /\ UNCHANGED <<argv, script, lookup, remote, conn_err, endpoint, json_output, free,
                   request, conn_addr, peer, wire_out, pending, inbuf>>

\* Line 84: read_line returns Err, and `?` returns it.
ReadError ==
    /\ pc = "flushed"
    /\ ReadReady
    /\ \E e \in ReadErrors : Exit(1, "io_error", <<>>, <<e>>)
    /\ log' = Append(log, Step("read_line", FALSE))
    /\ UNCHANGED <<argv, script, lookup, remote, conn_err, endpoint, json_output, free,
                   request, conn_addr, peer, wire_out, pending, inbuf, line>>

(***************************************************************************)
(* The daemon's side of the connection.                                    *)
(***************************************************************************)
Connected == pc \in {"connected", "wrote_req", "wrote_nl", "flushed"}

\* The daemon answers the request: all but the last token reach the client.
DaemonReply ==
    /\ pc = "flushed"
    /\ peer = "open"
    /\ inbuf = <<>>
    /\ pending = <<>>
    /\ inbuf' = SubSeq(script, 1, Len(script) - 1)
    /\ pending' = SubSeq(script, Len(script), Len(script))
    /\ UNCHANGED <<argv, script, lookup, remote, conn_err, pc, endpoint, json_output,
                   free, request, conn_addr, peer, wire_out, line, stdout, stderr,
                   exit_code, exit_at, log>>

\* The rest of the answer arrives.
DaemonSendRest ==
    /\ Connected
    /\ peer = "open"
    /\ pending # <<>>
    /\ inbuf' = inbuf \o pending
    /\ pending' = <<>>
    /\ UNCHANGED <<argv, script, lookup, remote, conn_err, pc, endpoint, json_output,
                   free, request, conn_addr, peer, wire_out, line, stdout, stderr,
                   exit_code, exit_at, log>>

\* The daemon closes the connection; what it had not sent is never sent.
DaemonClose ==
    /\ Connected
    /\ peer = "open"
    /\ peer' = "closed"
    /\ pending' = <<>>
    /\ UNCHANGED <<argv, script, lookup, remote, conn_err, pc, endpoint, json_output,
                   free, request, conn_addr, inbuf, wire_out, line, stdout, stderr,
                   exit_code, exit_at, log>>

\* The connection is reset; what the daemon had not sent is never sent, and
\* the bytes that had arrived stay readable.
DaemonReset ==
    /\ Connected
    /\ peer \in {"open", "closed"}
    /\ peer' = IF peer = "closed" THEN "closed_reset" ELSE "reset"
    /\ pending' = <<>>
    /\ UNCHANGED <<argv, script, lookup, remote, conn_err, pc, endpoint, json_output,
                   free, request, conn_addr, inbuf, wire_out, line, stdout, stderr,
                   exit_code, exit_at, log>>

Client ==
    \/ ArgsError \/ Help \/ Version \/ NoCommand \/ Build
    \/ ConnectOk \/ ConnectFail
    \/ WriteRequest \/ WriteNewline \/ Flush
    \/ ReadLine \/ ReadError

Daemon == DaemonReply \/ DaemonSendRest \/ DaemonClose \/ DaemonReset

Next == Client \/ Daemon

Spec == Init /\ [][Next]_vars

InitFair == Init /\ argv \in ShortRuns /\ script \in ShortReplies

\* The runs of the short scenarios in which the scheduler runs the client
\* whenever it can take a step, and the daemon does not stay idle forever on a
\* connection it holds.
FairSpec == InitFair /\ [][Next]_vars /\ WF_vars(Client) /\ WF_vars(Daemon)

(***************************************************************************)
(* Vocabulary of the properties.                                           *)
(***************************************************************************)
Did(op) == \E i \in 1..Len(log) : log[i].op = op
DidOk(op) == \E i \in 1..Len(log) : log[i] = Step(op, TRUE)
Failed(op) == \E i \in 1..Len(log) : log[i] = Step(op, FALSE)

NetOrder == <<"connect", "write_req", "write_nl", "flush", "read_line">>
IsNetOp(e) == \E i \in 1..Len(NetOrder) : NetOrder[i] = e.op
NetLog == SelectSeq(log, IsNetOp)

CountNL(ts) == Cardinality({i \in 1..Len(ts) : ts[i] = NL})

\* The response as parsed from the line read.
Resp == FromStr(Trim(line))
\* The status field is the string "success".
StatusIsSuccess(v) ==
    /\ Get(v, StatusKey) # <<>>
    /\ Get(v, StatusKey)[1].t = "str"
    /\ Get(v, StatusKey)[1].s = Success

NoNetwork ==
    /\ conn_addr = <<>>
    /\ conn_err = <<>>
    /\ peer = "none"
    /\ wire_out = <<>>
    /\ NetLog = <<>>

NoRendering == ~Did("pretty_wrapper") /\ ~Did("status_check") /\ ~Did("render")

(***************************************************************************)
(* C1: the network steps happen at most once each, in the order connect,   *)
(* write request, write one newline, flush, read one line; nothing is read *)
(* before the flush; a failed step is the last step and ends the run.      *)
(***************************************************************************)
C1_OneExchangeInOrder ==
    /\ Len(NetLog) <= Len(NetOrder)
    /\ \A i \in 1..Len(NetLog) : NetLog[i].op = NetOrder[i]
    /\ \A i \in 1..(Len(NetLog) - 1) : NetLog[i].ok
    /\ (NetLog # <<>> /\ ~NetLog[Len(NetLog)].ok) => (pc = "done" /\ exit_code # 0)
    /\ wire_out = (IF DidOk("write_req") THEN ToTokens(request) ELSE <<>>)
                  \o (IF DidOk("write_nl") THEN <<NL>> ELSE <<>>)
    /\ CountNL(wire_out) <= 1
    /\ line # <<>> => DidOk("flush") /\ DidOk("read_line")
    /\ CountNL(line) <= 1
    /\ \A i \in 1..(Len(line) - 1) : line[i] # NL
    /\ pc = "done" <=> exit_code # -1

C1_Witness ==
    /\ pc = "done"
    /\ Len(NetLog) = Len(NetOrder)
    /\ NetLog[Len(NetLog)].ok
    /\ CountNL(script) > 1
    /\ exit_code = 0

(***************************************************************************)
(* C2: a run that met a flag parse error, a missing command, a connection  *)
(* failure, an empty response, a response that is no JSON, or a response   *)
(* whose status is not "success" ends with a non-zero exit status,         *)
(* whatever the command, the arguments and the json flag.                  *)
(***************************************************************************)
C2_FailureExitsNonZero ==
    pc = "done" =>
        LET m == Parse(argv)
            failure ==
                \/ m.err # ""
                \/ /\ ~OptPresent(m, <<"h","e","l","p">>)
                   /\ ~OptPresent(m, <<"v","e","r","s","i","o","n">>)
                   /\ m.free = <<>>
                \/ Failed("connect")
                \/ (DidOk("read_line") /\ Trim(line) = <<>>)
                \/ (DidOk("read_line") /\ Trim(line) # <<>> /\ ~Resp.ok)
                \/ (DidOk("read_line") /\ Trim(line) # <<>> /\ Resp.ok
                      /\ ~StatusIsSuccess(Resp.v))
        IN  failure => exit_code # 0

(***************************************************************************)
(* C3: with the json flag, once the line read parses as JSON, standard     *)
(* output is exactly the pretty-printed response wrapper, whatever the     *)
(* command and the status; no status check and no per-command rendering    *)
(* has run.                                                                *)
(***************************************************************************)
C3_JsonPrintsWrapper ==
    (json_output /\ DidOk("read_line") /\ Trim(line) # <<>> /\ Resp.ok) =>
        /\ pc = "done"
        /\ stdout = ToStringPretty(Resp.v)
        /\ stderr = <<>>
        /\ Did("pretty_wrapper")
        /\ ~Did("status_check")
        /\ ~Did("render")

C3_Witness ==
    /\ pc = "done"
    /\ json_output
    /\ DidOk("read_line")
    /\ Resp.ok
    /\ Get(Resp.v, StatusKey) = << JStr(ErrorKey) >>
    /\ Str(ToLowercase(free[1])) = "getpeers"
    /\ stdout = << "{", "  \"error\": \"unknown command\",", "  \"status\": \"error\"", "}" >>

(***************************************************************************)
(* C4: without the json flag, a parsed response whose status is not the    *)
(* string "success" gives "Error: <message>" on standard error (the error  *)
(* field when it is a string, else "unknown error"), nothing on standard   *)
(* output, no rendering, and a non-zero exit status.                       *)
(***************************************************************************)
C4_ProtocolError ==
    (~json_output /\ DidOk("read_line") /\ Trim(line) # <<>> /\ Resp.ok
       /\ ~StatusIsSuccess(Resp.v)) =>
        LET e == Get(Resp.v, ErrorKey)
            message == IF e # <<>> /\ e[1].t = "str" THEN Str(e[1].s) ELSE "unknown error"
        IN  /\ pc = "done"
            /\ stderr = << "Error: " \o message >>
            /\ stdout = <<>>
            /\ ~Did("render")
            /\ ~Did("pretty_wrapper")
            /\ exit_code # 0

C4_Witness ==
    /\ pc = "done"
    /\ ~json_output
    /\ DidOk("read_line")
    /\ Resp.ok
    /\ Get(Resp.v, StatusKey) = <<>>
    /\ Index(Resp.v, ResponseKey) # JNull
    /\ stderr = << "Error: unknown error" >>

(***************************************************************************)
(* C5 as claimed: a line that ends at EOF without its newline is an error: *)
(* non-zero exit, never parsed, nothing rendered; and a line that is empty *)
(* after trimming is the "empty response" error, unparsed.                 *)
(***************************************************************************)
C5_Claimed ==
    DidOk("read_line") =>
        /\ CountNL(line) = 0 =>
              (exit_code # 0 /\ ~Did("from_str") /\ stdout = <<>>)
        /\ Trim(line) = <<>> =>
              (exit_at = "empty_response" /\ exit_code # 0 /\ ~Did("from_str"))

(***************************************************************************)
(* C5 amended: when the stream ends (the daemon has closed, reset after    *)
(* that or not) before a newline has arrived, read_line returns the bytes  *)
(* received so far as the line, unless they are no UTF-8: then, and after  *)
(* a reset of an open connection, the read is an error with a non-zero     *)
(* exit and nothing parsed or printed to stdout.  A line that is empty     *)
(* after trimming (zero bytes included) is the "empty response" error:     *)
(* non-zero exit, no parsing.  Other bytes are parsed: what is no JSON     *)
(* document is a parse error with a non-zero exit and nothing rendered; a  *)
(* whole document that only lacks its newline is handled as any response:  *)
(* printed with the json flag, rendered on success, reported on an error   *)
(* status.                                                                 *)
(***************************************************************************)
StreamEnded == peer \in {"closed", "closed_reset"}
IsUtf8(ts) == \A i \in 1..Len(ts) : ts[i][1] # "b"

C5_EofLineIsTheLine ==
    /\ (Did("read_line") /\ StreamEnded /\ CountNL(inbuf) = 0) =>
          IF IsUtf8(inbuf) THEN DidOk("read_line") /\ line = inbuf
          ELSE /\ Failed("read_line")
               /\ stderr = << "Error: Custom { kind: InvalidData, error: "
                                \o "\"stream did not contain valid UTF-8\" }" >>
    /\ Failed("read_line") =>
          /\ pc = "done"
          /\ exit_code # 0
          /\ stdout = <<>>
          /\ line = <<>>
          /\ ~Did("from_str")
          /\ NoRendering
          /\ (peer = "reset" /\ CountNL(inbuf) = 0) \/ ~IsUtf8(inbuf)
    /\ DidOk("read_line") =>
          /\ pc = "done"
          /\ Trim(line) = <<>> =>
                /\ exit_at = "empty_response"
                /\ exit_code # 0
                /\ stderr = << "Empty response from admin socket" >>
                /\ stdout = <<>>
                /\ ~Did("from_str")
          /\ Trim(line) # <<>> =>
                /\ Did("from_str")
                /\ ~Resp.ok =>
                      /\ exit_code # 0
                      /\ stdout = <<>>
                      /\ exit_at = "bad_json"
                      /\ Failed("from_str")
                      /\ NoRendering
          /\ (CountNL(line) = 0 /\ Trim(line) # <<>> /\ Resp.ok) =>
                /\ DidOk("from_str")
                /\ json_output =>
                      (exit_code = 0 /\ stdout = ToStringPretty(Resp.v) /\ stderr = <<>>)
                /\ (~json_output /\ StatusIsSuccess(Resp.v)) =>
                      (exit_code = 0 /\ Did("render") /\ stderr = <<>>)
                /\ (~json_output /\ ~StatusIsSuccess(Resp.v)) =>
                      (exit_code # 0 /\ stdout = <<>> /\ ~Did("render") /\ stderr # <<>>)

C5_Witness ==
    /\ pc = "done"
    /\ DidOk("read_line")
    /\ CountNL(line) = 0
    /\ line = inbuf
    /\ peer = "closed_reset"
    /\ exit_code = 0
    /\ exit_at = "rendered"
    /\ stdout # <<>>

(***************************************************************************)
(* C6: the address connected to is the endpoint without one leading        *)
(* "tcp://", or the endpoint itself when it has none.  A failed connect    *)
(* prints one line that holds the endpoint as given and the cause (the     *)
(* error of the address text, of the lookup, or of the connect in the      *)
(* environment of the run), exits non-zero, and nothing is written, read,  *)
(* parsed or rendered.                                                     *)
(***************************************************************************)
\* The endpoint as the Debug form of the error string shows it.
Shown(ep) == Str(Flatten([i \in 1..Len(ep) |-> DebugChar(ep[i])]))

HasEq(tok) == \E i \in 1..Len(tok) : tok[i] = "="
FirstEq(tok) == CHOOSE i \in 1..Len(tok) : tok[i] = "=" /\ \A j \in 1..(i - 1) : tok[j] # "="
KeyOf(tok) == SubSeq(tok, 1, FirstEq(tok) - 1)
ValueOf(tok) == SubSeq(tok, FirstEq(tok) + 1, Len(tok))

C7_RequestArguments ==
    pc \notin {"start", "done"} =>
        LET toks == Tail(free)
            pairs == {i \in 1..Len(toks) : HasEq(toks[i])}
            args == Index(request, <<"a","r","g","u","m","e","n","t","s">>)
            n == Len(args.kids)
        IN  /\ free = Parse(argv).free
            /\ request.t = "obj"
            /\ Len(request.kids) = 3
            /\ Get(request, <<"r","e","q","u","e","s","t">>) = << JStr(free[1]) >>
            /\ Get(request, <<"k","e","e","p","a","l","i","v","e">>) = << JBool(FALSE) >>
            /\ args.t = "obj"
            /\ \A i, j \in 1..n : args.kids[i].k = args.kids[j].k => i = j
            /\ {args.kids[i].k : i \in 1..n} = {KeyOf(toks[i]) : i \in pairs}
            /\ \A i \in pairs :
                  (\A j \in pairs : KeyOf(toks[j]) = KeyOf(toks[i]) => j <= i)
                      => Get(args, KeyOf(toks[i])) = << JStr(ValueOf(toks[i])) >>
            /\ pairs = {} => args.kids = <<>>

C7_Witness ==
    /\ pc = "flushed"
    /\ free = << <<"a","d","d","p","e","e","r">>, <<"a","=","b">>, <<"a","=","c","=","d">> >>
    /\ Compact(request) = "{\"arguments\":{\"a\":\"c=d\"},\"keepalive\":false,"
                              \o "\"request\":\"addpeer\"}"
    /\ wire_out = ToTokens(request) \o <<NL>>

(***************************************************************************)
(* C8: without the json flag and on success, getpeers / gettree (in any    *)
(* letter case) print exactly the literal line for an empty array, and for *)
(* n >= 1 entries the n blocks in array order with one blank line between  *)
(* consecutive blocks: n-1 blank lines, and not the literal line.          *)
(***************************************************************************)
RECURSIVE SplitOnBlank(_)
\* The runs of lines between the blank lines.
SplitOnBlank(ls) ==
    IF \A i \in 1..Len(ls) : ls[i] # "" THEN << ls >>
    ELSE LET at == CHOOSE i \in 1..Len(ls) : ls[i] = "" /\ \A j \in 1..(i - 1) : ls[j] # ""
         IN  << SubSeq(ls, 1, at - 1) >> \o SplitOnBlank(SubSeq(ls, at + 1, Len(ls)))

EntriesShown(key, none, fields) ==
    LET found == Get(Index(Resp.v, ResponseKey), key) IN
    (found # <<>> /\ found[1].t = "arr") =>
        LET arr == found[1].kids
            n == Len(arr)
        IN  IF n = 0 THEN stdout = << none >>
            ELSE /\ SplitOnBlank(stdout) = [i \in 1..n |-> PrintKv(arr[i], fields)]
                 /\ Cardinality({i \in 1..Len(stdout) : stdout[i] = ""}) = n - 1
                 /\ \A i \in 1..Len(stdout) : stdout[i] # none

C8_EntriesBlocks ==
    (~json_output /\ DidOk("read_line") /\ Trim(line) # <<>> /\ Resp.ok
       /\ StatusIsSuccess(Resp.v)) =>
        /\ pc = "done"
        /\ exit_code = 0
        /\ Str(ToLowercase(free[1])) = "getpeers" =>
              EntriesShown(<<"p","e","e","r","s">>, NoPeers, PeerFields)
        /\ Str(ToLowercase(free[1])) = "gettree" =>
              EntriesShown(<<"t","r","e","e">>, NoTree, TreeFields)

C8_Witness ==
    /\ pc = "done"
    /\ ~json_output
    /\ DidOk("read_line")
    /\ free[1] = <<"g","e","t","P","e","e","r","s">>
    /\ Resp.ok
    /\ Get(Index(Resp.v, ResponseKey), <<"p","e","e","r","s">>)
          = << JArr(<<Entry2, Entry1>>) >>
    /\ stdout = << "  URI:             tls://h", "  Public key:      k2", "",
                   "  Up:              true", "  Public key:      k1",
                   "  IPv6 address:    n/a" >>

(***************************************************************************)
(* C9: a run that ends in a usage outcome never touches the network: help  *)
(* and version print to standard output and exit 0 (even with a command),  *)
(* a flag error or a missing command prints usage to standard error and    *)
(* exits non-zero.  A connection is attempted only once a command has been *)
(* obtained and the request built.                                         *)
(***************************************************************************)
C9_UsageWithoutNetwork ==
    LET m == Parse(argv)
        asked == /\ m.err = ""
                 /\ \/ OptPresent(m, <<"h","e","l","p">>)
                    \/ OptPresent(m, <<"v","e","r","s","i","o","n">>)
        misuse == m.err # "" \/ (~asked /\ m.free = <<>>)
    IN  /\ (pc = "done" /\ asked) =>
              (exit_code = 0 /\ stdout # <<>> /\ stderr = <<>> /\ NoNetwork)
        /\ (pc = "done" /\ misuse) =>
              /\ exit_code # 0
              /\ stdout = <<>>
              /\ \E i \in 1..Len(stderr) : stderr[i] = BriefUsage
              /\ NoNetwork
        /\ (asked \/ misuse) => NoNetwork
        /\ ~NoNetwork =>
              /\ free # <<>>
              /\ request = BuildRequest(free)
              /\ \E i, j \in 1..Len(log) :
                    i < j /\ log[i].op = "build" /\ log[j].op = "connect"

C9_Witness ==
    /\ pc = "done"
    /\ exit_at = "help"
    /\ Parse(argv).free # <<>>
    /\ exit_code = 0
    /\ stdout # <<>>

(***************************************************************************)
(* C10: there is no timeout.  After the flush the client takes no step     *)
(* until a newline has arrived or the connection has ended, and leaves the *)
(* read only then; when the daemon does answer or close, every run ends.   *)
(***************************************************************************)
AnsweredOrEnded == (\E i \in 1..Len(inbuf) : inbuf[i] = NL) \/ peer # "open"

\* What the client itself changes.
clientVars == <<pc, endpoint, json_output, free, request, conn_addr, conn_err, wire_out,
                line, stdout, stderr, exit_code, exit_at, log>>

C10_BlocksUntilAnswered ==
    /\ [][(pc = "flushed" /\ ~AnsweredOrEnded) => UNCHANGED clientVars]_vars
    /\ [][(pc = "flushed" /\ pc' # "flushed") => (AnsweredOrEnded /\ pc' = "done")]_vars
    /\ <>(pc = "done")

C10_Witness ==
    /\ pc = "flushed"
    /\ peer = "open"
    /\ inbuf # <<>>
    /\ ~AnsweredOrEnded
    /\ stdout = <<>>
    /\ exit_code = -1

=============================================================================
